---------------------------- MODULE Spec2Model ----------------------------
(***************************************************************************)
(* Random number generator core of Botan: the generator contract           *)
(* (RandomNumberGenerator), the fail-fast stub (Null_RNG), the mutex       *)
(* wrapper (Serialized_RNG) of src/lib/rng/rng.h and the self-seeding      *)
(* generator (AutoSeeded_RNG) of src/lib/rng/auto_rng/auto_rng.cpp.        *)
(*                                                                         *)
(* The DRBG owned by AutoSeeded_RNG (BOTAN_AUTO_RNG_DRBG) and the bodies   *)
(* of RandomNumberGenerator::randomize_with_input, randomize_with_ts_input *)
(* and reseed live outside these two files; they are modelled from the     *)
(* specification and the header comments (the DRBG_* and RNG_* operators). *)
(***************************************************************************)
EXTENDS Integers, Sequences, FiniteSets, TLC

(***************************************************************************)
(* Bounds of the model.                                                    *)
(***************************************************************************)
NumThreads == 2     \* K: threads sharing one Serialized_RNG
MaxCalls == 2       \* M: randomize calls of each thread on the counting mock
MaxLen == 1         \* requested output lengths are 0..MaxLen
MaxBits == 1        \* poll_bits of a reseed are 1..MaxBits
MaxByte == 3        \* a byte is 0..MaxByte (0 against the non-zero values)
MaxDraws == 4       \* bytes one next_nonzero_byte call may draw in the model

Threads == 1..NumThreads
NoThread == 0
Lens == 0..MaxLen
Bytes == 0..MaxByte

VARIABLES
  rng_type,     \* concrete type of the generator in use
  m_rng,        \* AutoSeeded_RNG::m_rng, the owned DRBG (NoRng: none)
  seed_source,  \* what the DRBG was constructed over
  ctor,         \* position inside the AutoSeeded_RNG constructor
  fr,           \* position inside AutoSeeded_RNG::force_reseed
  ctor_exc,     \* exception that left the constructor
  last,         \* the last call a single caller made directly on the generator
  prev,         \* the operation of the direct call before it
  m_mutex,      \* Serialized_RNG::m_mutex: the thread holding it, or NoThread
  pc,           \* per thread: position inside a Serialized_RNG call
  call,         \* per thread: the call made on the wrapper
  sub,          \* per thread: the locked wrapper method being executed
  inner,        \* per thread: what the owned generator produced: result,
                \* error, every call recorded (calls), the wrapper's own (fwd)
  ret,          \* per thread: what the wrapper handed to its caller
  count,        \* counting mock: number of randomize calls it has seen
  tmp,          \* counting mock: per thread, the count it read on entry
  ncalls,       \* per thread: randomize calls made on the wrapped mock
  nz_pc,        \* position inside next_nonzero_byte
  nz_b,         \* next_nonzero_byte's local b
  nz_drawn,     \* bytes the generator yielded during this call
  nz_out        \* the bytes successive next_nonzero_byte calls returned

vars == <<rng_type, m_rng, seed_source, ctor, fr, ctor_exc, last, prev,
          m_mutex, pc, call, sub, inner, ret, count, tmp, ncalls,
          nz_pc, nz_b, nz_drawn, nz_out>>

ctorVars == <<seed_source, ctor, fr, ctor_exc>>
directVars == <<last, prev>>
serVars == <<m_mutex, pc, call, sub, inner, ret, count, tmp, ncalls>>
nzVars == <<nz_pc, nz_b, nz_drawn, nz_out>>

(***************************************************************************)
(* Values: buffers, arguments, results, exceptions.                        *)
(***************************************************************************)
NoExc == "none"
NullExc == "Null_RNG called"
SeedExc == "AutoSeeded_RNG reseeding failed"
UnseededExc == "PRNG not seeded"
SeedingFailures == {SeedExc, UnseededExc}

\* Buffers and the poll timeout are opaque to this code, which only hands
\* them on: one token for each origin.
NoBuf == "no input"
CallerBuf == "caller's input"
TsBuf == "timestamps"
PollBuf == "polled entropy"
NoTimeout == "no timeout"
PollTimeout == "poll_timeout"

Args(len, in, bits, timeout) ==
  [len |-> len, in |-> in, bits |-> bits, timeout |-> timeout]
NoArgs == Args(0, NoBuf, 0, NoTimeout)

RVoid == [t |-> "void", b |-> FALSE, n |-> 0, s |-> ""]
RBool(x) == [t |-> "bool", b |-> x, n |-> 0, s |-> ""]
RSize(k) == [t |-> "size_t", b |-> FALSE, n |-> k, s |-> ""]
RName(str) == [t |-> "string", b |-> FALSE, n |-> 0, s |-> str]

Ops == {"randomize", "is_seeded", "clear", "name", "reseed", "add_entropy",
        "randomize_with_input"}

ArgsOf(op) ==
  CASE op = "randomize" -> {Args(l, NoBuf, 0, NoTimeout) : l \in Lens}
    [] op = "add_entropy" -> {Args(0, CallerBuf, 0, NoTimeout)}
    [] op = "randomize_with_input" ->
         {Args(l, CallerBuf, 0, NoTimeout) : l \in Lens}
    [] op = "reseed" ->
         {Args(0, NoBuf, b, PollTimeout) : b \in 1..MaxBits}
    [] OTHER -> {NoArgs}

\* What the environment decides during one operation: the bits an entropy
\* poll collects, and what the DRBG's seed source does when the DRBG turns
\* to it.
Modes == {"seed", "fail", "skip"}
Env == [got : 0..MaxBits, mode : Modes]
NoEnv == [got |-> 0, mode |-> "fail"]

\* The part of the environment an operation can depend on.
EnvOf(op) ==
  CASE op \in {"randomize", "randomize_with_input", "force_reseed"} ->
         [got : {0}, mode : Modes]
    [] op = "reseed" -> Env
    [] OTHER -> {NoEnv}

Min(a, b) == IF a < b THEN a ELSE b

\* One call recorded by the object it was made on.
Rec(on, op, a, result, exc) ==
  [on |-> on, op |-> op, args |-> a, result |-> result, exc |-> exc]

\* The outcome of an operation: the DRBG state after it, its result, the
\* exception it raised and the calls it made on the objects below it.
Outcome(rng, result, exc, calls) ==
  [rng |-> rng, result |-> result, exc |-> exc, calls |-> calls]

\* b after a: b runs only when a returned normally.
Then(a, b) ==
  IF a.exc # NoExc THEN a
  ELSE Outcome(b.rng, b.result, b.exc, a.calls \o b.calls)


\* A method invocation on object `on`: recorded ahead of the calls its body
\* makes.
Called(on, op, a, body) ==
  Outcome(body.rng, body.result, body.exc,
          <<Rec(on, op, a, body.result, body.exc)>> \o body.calls)

Body(rng, result, exc) == Outcome(rng, result, exc, <<>>)

(***************************************************************************)
(* The DRBG behind AutoSeeded_RNG (BOTAN_AUTO_RNG_DRBG), an external       *)
(* collaborator.  Its secret state is opaque; the model keeps the seeded    *)
(* flag and records every call made on it with its arguments.              *)
(***************************************************************************)
NoRng == [alive |-> FALSE, seeded |-> FALSE]
NewDRBG == [alive |-> TRUE, seeded |-> FALSE]
SeededDRBG == [alive |-> TRUE, seeded |-> TRUE]

\* The unconditional reseed: seeded afterwards exactly when the seed source
\* delivered.
DRBG_force_reseed(s, a, e) ==
  Called("DRBG", "force_reseed", a,
         Body([s EXCEPT !.seeded = (e.mode = "seed")], RVoid, NoExc))

\* Output with the extra input mixed in, as one step. An unseeded DRBG first
\* turns to its seed source and raises when that fails; a zero-length draw
\* may also return without looking at the state at all.
DRBG_draw(s, op, a, e) ==
  Called("DRBG", op, a,
    IF s.seeded \/ e.mode = "seed"
      THEN Body([s EXCEPT !.seeded = TRUE], RVoid, NoExc)
    ELSE IF e.mode = "skip" /\ a.len = 0
      THEN Body(s, RVoid, NoExc)
    ELSE Body(s, RVoid, UnseededExc))

DRBG_randomize(s, a, e) == DRBG_draw(s, "randomize", a, e)

DRBG_randomize_with_input(s, a, e) ==
  DRBG_draw(s, "randomize_with_input", a, e)

DRBG_is_seeded(s, a, e) ==
  Called("DRBG", "is_seeded", a, Body(s, RBool(s.seeded), NoExc))

DRBG_clear(s, a, e) ==
  Called("DRBG", "clear", a,
         Body([s EXCEPT !.seeded = FALSE], RVoid, NoExc))

DRBG_name(s, a, e) ==
  Called("DRBG", "name", a, Body(s, RName("BOTAN_AUTO_RNG_DRBG"), NoExc))

DRBG_add_entropy(s, a, e) ==
  Called("DRBG", "add_entropy", a, Body(s, RVoid, NoExc))

\* Polls for up to a.bits bits; returns the estimate collected, which may be
\* anything from 0 to a.bits, and is seeded afterwards when it was before or
\* when the poll delivered.
DRBG_reseed(s, a, e) ==
  LET got == Min(e.got, a.bits)
  IN Called("DRBG", "reseed", a,
       Body([s EXCEPT !.seeded = s.seeded \/ (got > 0 /\ e.mode = "seed")],
            RSize(got), NoExc))

(***************************************************************************)
(* RandomNumberGenerator: the defaults of the base class.                  *)
(***************************************************************************)
\* randomize_with_input, when a type does not override it: the type's
\* add_entropy on the extra input, then the type's randomize on the output.
\* What each of the two virtual calls is given:
RNG_randomize_with_input_entropy(a) == Args(0, a.in, 0, NoTimeout)

RNG_randomize_with_input_output(a) == Args(a.len, NoBuf, 0, NoTimeout)

\* randomize_with_ts_input: the type's randomize_with_input, given a buffer
\* of timestamps as the extra input.
RNG_randomize_with_ts_input(a) == Args(a.len, TsBuf, 0, NoTimeout)

\* reseed, when a type does not override it: poll the sources for up to
\* a.bits bits; what they collect goes to the type's add_entropy, and the
\* estimate is returned.
RNG_reseed_estimate(a, e) == Min(e.got, a.bits)

RNG_reseed_entropy(a) == Args(0, PollBuf, 0, NoTimeout)

(***************************************************************************)
(* AutoSeeded_RNG: the contract operations (auto_rng.cpp).                 *)
(***************************************************************************)
\* Mutant: an is_seeded() that seeds the DRBG it asks.
Mutant_AutoSeeded_is_seeded_seeds(s, a, e) ==
  Called("AutoSeeded_RNG", "is_seeded", a,
         Body([s EXCEPT !.seeded = TRUE], RBool(TRUE), NoExc))

AutoSeeded_RNG_is_seeded(s, a, e) ==
  Called("AutoSeeded_RNG", "is_seeded", a, DRBG_is_seeded(s, a, e))

\* Mutant: clear() that forgets the DRBG.
Mutant_AutoSeeded_clear_noop(s, a, e) ==
  Called("AutoSeeded_RNG", "clear", a, Body(s, RVoid, NoExc))

AutoSeeded_RNG_clear(s, a, e) ==
  Called("AutoSeeded_RNG", "clear", a, DRBG_clear(s, a, e))

AutoSeeded_RNG_name(s, a, e) ==
  Called("AutoSeeded_RNG", "name", a, DRBG_name(s, a, e))

AutoSeeded_RNG_add_entropy(s, a, e) ==
  Called("AutoSeeded_RNG", "add_entropy", a, DRBG_add_entropy(s, a, e))

\* Mutant: reseed() that raises when the estimate is short of poll_bits.
Mutant_AutoSeeded_reseed_strict(s, a, e) ==
  LET o == DRBG_reseed(s, a, e)
  IN Called("AutoSeeded_RNG", "reseed", a,
            IF o.result.n < a.bits
              THEN Outcome(o.rng, o.result, SeedExc, o.calls) ELSE o)

AutoSeeded_RNG_reseed(s, a, e) ==
  Called("AutoSeeded_RNG", "reseed", a, DRBG_reseed(s, a, e))

\* Mutant: randomize_with_input that drops the extra input and asks the
\* DRBG for plain output.
Mutant_AutoSeeded_randomize_with_input_plain(s, a, e) ==
  Called("AutoSeeded_RNG", "randomize_with_input", a,
         DRBG_randomize(s, Args(a.len, NoBuf, 0, NoTimeout), e))

AutoSeeded_RNG_randomize_with_input(s, a, e) ==
  Called("AutoSeeded_RNG", "randomize_with_input", a,
         DRBG_randomize_with_input(s, a, e))

\* Mutant: randomize() handed to the DRBG's randomize as it is.
Mutant_AutoSeeded_randomize_plain(s, a, e) ==
  Called("AutoSeeded_RNG", "randomize", a, DRBG_randomize(s, a, e))

AutoSeeded_RNG_randomize(s, a, e) ==
  Called("AutoSeeded_RNG", "randomize", a,
         AutoSeeded_RNG_randomize_with_input(
           s, RNG_randomize_with_ts_input(a), e))

(***************************************************************************)
(* Null_RNG (rng.h): no state of its own; the DRBG state passes through.   *)
(***************************************************************************)
Null_RNG_is_seeded(s, a, e) ==
  Called("Null_RNG", "is_seeded", a, Body(s, RBool(FALSE), NoExc))

Null_RNG_clear(s, a, e) ==
  Called("Null_RNG", "clear", a, Body(s, RVoid, NoExc))

\* Mutant: a stub that lets a zero-length request through.
Mutant_Null_randomize_empty_ok(s, a, e) ==
  Called("Null_RNG", "randomize", a,
         Body(s, RVoid, IF a.len = 0 THEN NoExc ELSE NullExc))

Null_RNG_randomize(s, a, e) ==
  Called("Null_RNG", "randomize", a, Body(s, RVoid, NullExc))

Null_RNG_add_entropy(s, a, e) ==
  Called("Null_RNG", "add_entropy", a, Body(s, RVoid, NoExc))

Null_RNG_name(s, a, e) ==
  Called("Null_RNG", "name", a, Body(s, RName("Null_RNG"), NoExc))

\* Mutant: a stub whose randomize_with_input asks for the output before it
\* mixes the extra input in.
Mutant_Null_randomize_with_input_reversed(s, a, e) ==
  Called("Null_RNG", "randomize_with_input", a,
    LET y == Null_RNG_randomize(s, RNG_randomize_with_input_output(a), e)
        x == Null_RNG_add_entropy(y.rng, RNG_randomize_with_input_entropy(a), e)
    IN Then(y, x))

Null_RNG_randomize_with_input(s, a, e) ==
  Called("Null_RNG", "randomize_with_input", a,
    LET x == Null_RNG_add_entropy(s, RNG_randomize_with_input_entropy(a), e)
        y == Null_RNG_randomize(x.rng, RNG_randomize_with_input_output(a), e)
    IN Then(x, y))

Null_RNG_reseed(s, a, e) ==
  Called("Null_RNG", "reseed", a,
    LET got == RNG_reseed_estimate(a, e)
        x == IF got > 0
               THEN Null_RNG_add_entropy(s, RNG_reseed_entropy(a), e)
               ELSE Body(s, RVoid, NoExc)
    IN Outcome(x.rng, RSize(got), x.exc, x.calls))

\* Virtual dispatch on the concrete type.
Dispatch(type, op, s, a, e) ==
  IF type = "Null_RNG" THEN
    CASE op = "randomize" -> Null_RNG_randomize(s, a, e)
      [] op = "is_seeded" -> Null_RNG_is_seeded(s, a, e)
      [] op = "clear" -> Null_RNG_clear(s, a, e)
      [] op = "name" -> Null_RNG_name(s, a, e)
      [] op = "reseed" -> Null_RNG_reseed(s, a, e)
      [] op = "add_entropy" -> Null_RNG_add_entropy(s, a, e)
      [] op = "randomize_with_input" -> Null_RNG_randomize_with_input(s, a, e)
  ELSE
    CASE op = "randomize" -> AutoSeeded_RNG_randomize(s, a, e)
      [] op = "is_seeded" -> AutoSeeded_RNG_is_seeded(s, a, e)
      [] op = "clear" -> AutoSeeded_RNG_clear(s, a, e)
      [] op = "name" -> AutoSeeded_RNG_name(s, a, e)
      [] op = "reseed" -> AutoSeeded_RNG_reseed(s, a, e)
      [] op = "add_entropy" -> AutoSeeded_RNG_add_entropy(s, a, e)
      [] op = "randomize_with_input" ->
           AutoSeeded_RNG_randomize_with_input(s, a, e)


(***************************************************************************)
(* Initial values of the parts a specification does not use.               *)
(***************************************************************************)
NoCall == [op |-> "none", args |-> NoArgs]
NoInner == [result |-> RVoid, exc |-> NoExc, calls |-> <<>>, fwd |-> <<>>]
NoRet == [result |-> RVoid, exc |-> NoExc]
NoLast == [op |-> "none", args |-> NoArgs, result |-> RVoid, exc |-> NoExc,
           calls |-> <<>>]
NoSource == [variant |-> "none", rng |-> FALSE, srcs |-> FALSE]

DirectIdle == last = NoLast /\ prev = "none"

SerIdle ==
  /\ m_mutex = NoThread
  /\ pc = [t \in Threads |-> "idle"]
  /\ call = [t \in Threads |-> NoCall]
  /\ sub = [t \in Threads |-> NoCall]
  /\ inner = [t \in Threads |-> NoInner]
  /\ ret = [t \in Threads |-> NoRet]
  /\ count = 0
  /\ tmp = [t \in Threads |-> 0]
  /\ ncalls = [t \in Threads |-> 0]

NzIdle == nz_pc = "idle" /\ nz_b = 0 /\ nz_drawn = <<>> /\ nz_out = <<>>

\* A generator somebody already constructed: the stub, or a self-seeding
\* generator as its constructor leaves it.
Constructed(types) ==
  /\ rng_type \in types
  /\ m_rng = IF rng_type = "AutoSeeded_RNG" THEN SeededDRBG ELSE NoRng
  /\ seed_source = NoSource
  /\ ctor = IF rng_type = "AutoSeeded_RNG" THEN "constructed" ELSE "none"
  /\ fr = "idle"
  /\ ctor_exc = NoExc

(***************************************************************************)
(* AutoSeeded_RNG: construction and force_reseed (auto_rng.cpp 24-71).     *)
(***************************************************************************)
Variants == {"underlying_rng", "entropy_sources", "both", "default"}

\* The seed source each constructor hands to the DRBG; the default
\* constructor delegates to the first or the second one, as the build has a
\* system RNG or not.
SourcesOf(variant) ==
  CASE variant = "underlying_rng" -> {[variant |-> variant, rng |-> TRUE, srcs |-> FALSE]}
    [] variant = "entropy_sources" -> {[variant |-> variant, rng |-> FALSE, srcs |-> TRUE]}
    [] variant = "both" -> {[variant |-> variant, rng |-> TRUE, srcs |-> TRUE]}
    [] variant = "default" -> {[variant |-> variant, rng |-> TRUE, srcs |-> FALSE],
                               [variant |-> variant, rng |-> FALSE, srcs |-> TRUE]}

\* Mutant: force_reseed without the zero-length draw.
Mutant_force_reseed_no_probe(step) ==
  CASE step = "entry" -> "reseed"
    [] step = "reseed" -> "check"
    [] step = "check" -> "idle"

\* The statements of force_reseed in the order they are written: the one
\* that follows `step`.
AutoSeeded_RNG_force_reseed_next(step) ==
  CASE step = "entry" -> "reseed"
    [] step = "reseed" -> "probe"
    [] step = "probe" -> "check"
    [] step = "check" -> "idle"

\* m_rng.reset(new BOTAN_AUTO_RNG_DRBG(...)); force_reseed();
AutoSeeded_RNG_ctor ==
  /\ rng_type = "AutoSeeded_RNG"
  /\ ctor = "start"
  /\ \E variant \in Variants : seed_source' \in SourcesOf(variant)
  /\ m_rng' = NewDRBG
  /\ ctor' = "running"
  /\ fr' = AutoSeeded_RNG_force_reseed_next("entry")
  /\ UNCHANGED <<rng_type, ctor_exc, directVars, serVars, nzVars>>

\* A caller invokes force_reseed() on a constructed instance.
Direct_force_reseed ==
  /\ rng_type = "AutoSeeded_RNG"
  /\ ctor = "constructed"
  /\ fr = "idle"
  /\ fr' = AutoSeeded_RNG_force_reseed_next("entry")
  /\ prev' = last.op
  /\ last' = [NoLast EXCEPT !.op = "force_reseed"]
  /\ UNCHANGED <<rng_type, m_rng, seed_source, ctor, ctor_exc, serVars, nzVars>>

\* force_reseed left by an exception: out of the constructor no instance
\* remains and the DRBG is destroyed with it; out of a direct call the
\* caller gets the exception.
ForceReseedThrows(exc, rng, calls) ==
  /\ fr' = "idle"
  /\ IF ctor = "running"
       THEN /\ ctor' = "failed"
            /\ ctor_exc' = exc
            /\ m_rng' = NoRng
            /\ last' = [last EXCEPT !.calls = @ \o calls]
       ELSE /\ m_rng' = rng
            /\ last' = [last EXCEPT !.exc = exc, !.calls = @ \o calls]
            /\ UNCHANGED <<ctor, ctor_exc>>

\* m_rng->force_reseed();
ForceReseed_reseed ==
  /\ fr = "reseed"
  /\ \E e \in EnvOf("force_reseed") :
       LET o == DRBG_force_reseed(m_rng, NoArgs, e)
       IN /\ m_rng' = o.rng
          /\ last' = [last EXCEPT !.calls = @ \o o.calls]
  /\ fr' = AutoSeeded_RNG_force_reseed_next("reseed")
  /\ UNCHANGED <<rng_type, seed_source, ctor, ctor_exc, prev, serVars, nzVars>>

\* m_rng->randomize(nullptr, 0);
ForceReseed_probe ==
  /\ fr = "probe"
  /\ \E e \in EnvOf("randomize") :
       LET o == DRBG_randomize(m_rng, Args(0, NoBuf, 0, NoTimeout), e)
       IN IF o.exc # NoExc
            THEN ForceReseedThrows(o.exc, o.rng, o.calls)
            ELSE /\ m_rng' = o.rng
                 /\ fr' = AutoSeeded_RNG_force_reseed_next("probe")
                 /\ last' = [last EXCEPT !.calls = @ \o o.calls]
                 /\ UNCHANGED <<ctor, ctor_exc>>
  /\ UNCHANGED <<rng_type, seed_source, prev, serVars, nzVars>>

\* Mutant: force_reseed without its is_seeded() check.
Mutant_force_reseed_unchecked(seeded) == NoExc

\* if(!m_rng->is_seeded()) throw Exception("AutoSeeded_RNG reseeding failed");
AutoSeeded_RNG_force_reseed_check(seeded) ==
  IF ~seeded THEN SeedExc ELSE NoExc

ForceReseed_check ==
  /\ fr = "check"
  /\ LET o == DRBG_is_seeded(m_rng, NoArgs, NoEnv)
         exc == AutoSeeded_RNG_force_reseed_check(o.result.b)
     IN IF exc # NoExc
          THEN ForceReseedThrows(exc, o.rng, o.calls)
          ELSE /\ fr' = AutoSeeded_RNG_force_reseed_next("check")
               /\ ctor' = "constructed"
               /\ last' = [last EXCEPT !.calls = @ \o o.calls]
               /\ UNCHANGED <<m_rng, ctor_exc>>
  /\ UNCHANGED <<rng_type, seed_source, prev, serVars, nzVars>>

(***************************************************************************)
(* A single caller using the generator directly.                           *)
(***************************************************************************)
Usable ==
  /\ fr = "idle"
  /\ rng_type = "AutoSeeded_RNG" => ctor = "constructed"

DirectCall ==
  /\ Usable
  /\ \E op \in Ops : \E a \in ArgsOf(op) : \E e \in EnvOf(op) :
       LET o == Dispatch(rng_type, op, m_rng, a, e)
       IN /\ m_rng' = o.rng
          /\ last' = [op |-> op, args |-> a, result |-> o.result,
                      exc |-> o.exc, calls |-> o.calls]
  /\ prev' = last.op
  /\ UNCHANGED <<rng_type, ctorVars, serVars, nzVars>>

InitAuto ==
  /\ rng_type \in {"Null_RNG", "AutoSeeded_RNG"}
  /\ m_rng = NoRng
  /\ seed_source = NoSource
  /\ ctor = IF rng_type = "AutoSeeded_RNG" THEN "start" ELSE "none"
  /\ fr = "idle"
  /\ ctor_exc = NoExc
  /\ DirectIdle
  /\ SerIdle
  /\ NzIdle

NextAuto ==
  \/ AutoSeeded_RNG_ctor
  \/ Direct_force_reseed
  \/ ForceReseed_reseed
  \/ ForceReseed_probe
  \/ ForceReseed_check
  \/ DirectCall

SpecAuto == InitAuto /\ [][NextAuto]_vars

(***************************************************************************)
(* Serialized_RNG (rng.h 192-239) shared by the threads.  Its owned        *)
(* generator is the stub, a constructed self-seeding generator, or a mock  *)
(* that counts the randomize calls it sees with a plain read and write.    *)
(***************************************************************************)
WrappedTypes == {"Null_RNG", "AutoSeeded_RNG", "Counting_RNG"}

\* The wrapper overrides randomize, is_seeded, clear, name, reseed and
\* add_entropy; randomize_with_input is the base class's, which calls the
\* wrapper's add_entropy and then the wrapper's randomize.
Serialized_RNG_first(c) ==
  IF c.op = "randomize_with_input"
    THEN [op |-> "add_entropy",
          args |-> RNG_randomize_with_input_entropy(c.args)]
    ELSE c

Serialized_RNG_second(c) ==
  [op |-> "randomize", args |-> RNG_randomize_with_input_output(c.args)]

\* Whether the wrapper call goes on with a second locked method.
Serialized_RNG_more(c, s, exc) ==
  c.op = "randomize_with_input" /\ s.op = "add_entropy" /\ exc = NoExc

\* The scenario of the counting mock: every thread calls randomize, at most
\* MaxCalls times.  A new call discards what the last one returned.
Serialized_call_op(t, op, a) ==
  /\ pc[t] = "idle"
  /\ rng_type = "Counting_RNG" => op = "randomize" /\ ncalls[t] < MaxCalls
  /\ call' = [call EXCEPT ![t] = [op |-> op, args |-> a]]
  /\ sub' = [sub EXCEPT ![t] = Serialized_RNG_first([op |-> op, args |-> a])]
  /\ ncalls' = IF rng_type = "Counting_RNG"
                 THEN [ncalls EXCEPT ![t] = @ + 1] ELSE ncalls
  /\ ret' = [ret EXCEPT ![t] = NoRet]
  /\ pc' = [pc EXCEPT ![t] = "lock"]
  /\ UNCHANGED <<rng_type, m_rng, ctorVars, directVars, m_mutex, inner,
                 count, tmp, nzVars>>

Serialized_call(t) ==
  \E op \in Ops : \E a \in ArgsOf(op) : Serialized_call_op(t, op, a)

\* Mutant: a mutex that keeps out only the thread that holds it.
Mutant_lock_excludes_owner_only(mutex, t) == mutex # t

\* Mutant: a method that does not wait for the mutex.
Mutant_lock_never_blocks(mutex, t) == TRUE

\* std::lock_guard<std::mutex> lock(m_mutex): blocks until the mutex is free.
lock_guard_may_acquire(mutex, t) == mutex = NoThread

\* Mutant: an unnamed lock_guard, destroyed at the end of its own statement.
Mutant_lock_guard_temporary(t) == NoThread

\* The guard lives to the end of the method: t holds the mutex.
lock_guard_holder(t) == t

Serialized_lock(t) ==
  /\ pc[t] = "lock"
  /\ lock_guard_may_acquire(m_mutex, t)
  /\ m_mutex' = lock_guard_holder(t)
  /\ pc' = [pc EXCEPT ![t] = "forward"]
  /\ UNCHANGED <<rng_type, m_rng, ctorVars, directVars, call, sub, inner, ret,
                 count, tmp, ncalls, nzVars>>

\* m_rng->op(...): the owned generator starts on the call.
Owned_enter(t) ==
  /\ pc[t] = "forward"
  /\ pc' = [pc EXCEPT ![t] = "owned"]
  /\ tmp' = IF rng_type = "Counting_RNG" THEN [tmp EXCEPT ![t] = count] ELSE tmp
  /\ UNCHANGED <<rng_type, m_rng, ctorVars, directVars, m_mutex, call, sub,
                 inner, ret, count, ncalls, nzVars>>

\* Mutant: a wrapper that catches what the owned generator throws.
Mutant_Serialized_RNG_swallows(in) == [result |-> in.result, exc |-> NoExc]

\* return m_rng->op(...): what the wrapper's method hands on, a result or
\* the exception in flight.
Serialized_RNG_return(in) == [result |-> in.result, exc |-> in.exc]

\* The owned generator finishes the call: it returns or raises, and the
\* wrapper's method has its own result, the lock still held.
Owned_exit(t) ==
  /\ pc[t] = "owned"
  /\ \E e \in EnvOf(sub[t].op) :
       LET o == IF rng_type = "Counting_RNG"
                  THEN Called("Counting_RNG", sub[t].op, sub[t].args,
                              Body(m_rng, RVoid, NoExc))
                  ELSE Dispatch(rng_type, sub[t].op, m_rng, sub[t].args, e)
           in == [result |-> o.result, exc |-> o.exc,
                  calls |-> inner[t].calls \o o.calls,
                  fwd |-> Append(inner[t].fwd, Head(o.calls))]
       IN /\ m_rng' = o.rng
          /\ inner' = [inner EXCEPT ![t] = in]
          /\ ret' = [ret EXCEPT ![t] = Serialized_RNG_return(in)]
  /\ count' = IF rng_type = "Counting_RNG" THEN tmp[t] + 1 ELSE count
  /\ pc' = [pc EXCEPT ![t] = "unlock"]
  /\ UNCHANGED <<rng_type, ctorVars, directVars, m_mutex, call, sub, tmp,
                 ncalls, nzVars>>

\* Mutant: a lock that is taken and never given back.
Mutant_lock_never_released(mutex, exc) == mutex

\* Mutant: lock() and unlock() by hand, the unlock skipped by an exception.
Mutant_unlock_skipped_by_throw(mutex, exc) ==
  IF exc # NoExc THEN mutex ELSE NoThread

\* ~lock_guard(): runs when the method returns and when an exception leaves
\* it alike.
lock_guard_release(mutex, exc) == NoThread

\* The lock is released; randomize_with_input goes on with its second
\* method, any other call is back at its caller with ret.
Serialized_unlock(t) ==
  /\ pc[t] = "unlock"
  /\ m_mutex' = lock_guard_release(m_mutex, inner[t].exc)
  /\ IF Serialized_RNG_more(call[t], sub[t], inner[t].exc)
       THEN /\ sub' = [sub EXCEPT ![t] = Serialized_RNG_second(call[t])]
            /\ pc' = [pc EXCEPT ![t] = "lock"]
            /\ UNCHANGED <<call, inner>>
       ELSE /\ pc' = [pc EXCEPT ![t] = "idle"]
            /\ call' = [call EXCEPT ![t] = NoCall]
            /\ sub' = [sub EXCEPT ![t] = NoCall]
            /\ inner' = [inner EXCEPT ![t] = NoInner]
  /\ UNCHANGED <<rng_type, m_rng, ctorVars, directVars, ret, count,
                 tmp, ncalls, nzVars>>

Init ==
  /\ Constructed(WrappedTypes)
  /\ DirectIdle
  /\ SerIdle
  /\ NzIdle

Next ==
  \E t \in Threads :
    \/ Serialized_call(t)
    \/ Serialized_lock(t)
    \/ Owned_enter(t)
    \/ Owned_exit(t)
    \/ Serialized_unlock(t)

Spec == Init /\ [][Next]_vars

\* One thread alone on the wrapper, calling the six methods the wrapper
\* defines.
Overridden == Ops \ {"randomize_with_input"}

Caller == CHOOSE t \in Threads : TRUE

Single_call ==
  \E op \in Overridden : \E a \in ArgsOf(op) :
    Serialized_call_op(Caller, op, a)

InitSingle ==
  /\ Constructed({"Null_RNG", "AutoSeeded_RNG"})
  /\ DirectIdle
  /\ SerIdle
  /\ NzIdle

NextSingle ==
  \/ Single_call
  \/ Serialized_lock(Caller)
  \/ Owned_enter(Caller)
  \/ Owned_exit(Caller)
  \/ Serialized_unlock(Caller)

SpecSingle == InitSingle /\ [][NextSingle]_vars

\* A thread inside a wrapper method executes it to its end, the owned
\* generator's operation comes back, and the mutex is fair: a thread that
\* can acquire it again and again does acquire it.
Serialized_fair(t) ==
  /\ WF_vars(Owned_enter(t) \/ Owned_exit(t) \/ Serialized_unlock(t))
  /\ SF_vars(Serialized_lock(t))

\* The calls the threads of the fair specification make: one that raises
\* on the stub, one that returns, and the one that takes the lock twice.
FairOps == {"randomize", "is_seeded", "randomize_with_input"}

Fair_call(t) ==
  \E op \in FairOps : \E a \in ArgsOf(op) : Serialized_call_op(t, op, a)

InitFair ==
  /\ Constructed({"Null_RNG"})
  /\ DirectIdle
  /\ SerIdle
  /\ NzIdle

NextFair ==
  \E t \in Threads :
    \/ Fair_call(t)
    \/ Serialized_lock(t)
    \/ Owned_enter(t)
    \/ Owned_exit(t)
    \/ Serialized_unlock(t)

SpecFair ==
  InitFair /\ [][NextFair]_vars /\ \A t \in Threads : Serialized_fair(t)

(***************************************************************************)
(* RandomNumberGenerator::next_byte and next_nonzero_byte (rng.h 132-145). *)
(***************************************************************************)
\* A caller asks for another non-zero byte.
NZ_call ==
  /\ nz_pc \in {"idle", "returned"}
  /\ Len(nz_out) < MaxCalls
  /\ nz_pc' = "next_byte"
  /\ nz_drawn' = <<>>
  /\ UNCHANGED <<rng_type, m_rng, ctorVars, directVars, serVars, nz_b, nz_out>>

\* byte b; this->randomize(&b, 1); return b;
NZ_next_byte ==
  /\ nz_pc = "next_byte"
  /\ Len(nz_drawn) < MaxDraws
  /\ \E e \in EnvOf("randomize") : \E y \in Bytes :
       LET o == Dispatch(rng_type, "randomize", m_rng, Args(1, NoBuf, 0, NoTimeout), e)
       IN /\ m_rng' = o.rng
          /\ IF o.exc # NoExc
               THEN /\ nz_pc' = "raised"
                    /\ UNCHANGED <<nz_b, nz_drawn>>
               ELSE /\ nz_pc' = "test"
                    /\ nz_b' = y
                    /\ nz_drawn' = Append(nz_drawn, y)
  /\ UNCHANGED <<rng_type, ctorVars, directVars, serVars, nz_out>>

\* Mutant: a loop that never lets a byte out.
Mutant_nonzero_always_resample(b) == TRUE

\* Mutant: the first byte is returned whatever it is.
Mutant_nonzero_no_resample(b) == FALSE

\* while(b == 0)
next_nonzero_byte_again(b) == b = 0

\* ... b = this->next_byte(); return b;
NZ_test ==
  /\ nz_pc = "test"
  /\ IF next_nonzero_byte_again(nz_b)
       THEN /\ nz_pc' = "next_byte"
            /\ UNCHANGED nz_out
       ELSE /\ nz_pc' = "returned"
            /\ nz_out' = Append(nz_out, nz_b)
  /\ UNCHANGED <<rng_type, m_rng, ctorVars, directVars, serVars, nz_b, nz_drawn>>

InitNZ ==
  /\ Constructed({"Null_RNG", "AutoSeeded_RNG"})
  /\ DirectIdle
  /\ SerIdle
  /\ NzIdle

NextNZ == NZ_call \/ NZ_next_byte \/ NZ_test

SpecNZ == InitNZ /\ [][NextNZ]_vars

\* next_byte once the recorded history nz_drawn is full: the loop has no
\* bound of its own, so the draws go on and only the record stops.
NZ_next_byte_unrecorded ==
  /\ nz_pc = "next_byte"
  /\ Len(nz_drawn) = MaxDraws
  /\ \E e \in EnvOf("randomize") : \E y \in Bytes :
       LET o == Dispatch(rng_type, "randomize", m_rng, Args(1, NoBuf, 0, NoTimeout), e)
       IN /\ m_rng' = o.rng
          /\ IF o.exc # NoExc
               THEN nz_pc' = "raised" /\ UNCHANGED nz_b
               ELSE nz_pc' = "test" /\ nz_b' = y
  /\ UNCHANGED <<rng_type, ctorVars, directVars, serVars, nz_drawn, nz_out>>

\* The steps of one next_nonzero_byte call: a caller that is inside the call
\* keeps executing it, and each randomize it makes comes back.
NZ_step == NZ_next_byte \/ NZ_next_byte_unrecorded \/ NZ_test

NextNZLive == NZ_call \/ NZ_next_byte \/ NZ_next_byte_unrecorded \/ NZ_test

SpecNZLive == InitNZ /\ [][NextNZLive]_vars /\ WF_vars(NZ_step)

(***************************************************************************)
(* Properties.                                                             *)
(***************************************************************************)
IsSeededNow == AutoSeeded_RNG_is_seeded(m_rng, NoArgs, NoEnv).result.b

Holding == {t \in Threads : pc[t] \in {"forward", "owned", "unlock"}}

RECURSIVE SumOver(_, _)
SumOver(f, S) ==
  IF S = {} THEN 0
  ELSE LET x == CHOOSE y \in S : TRUE IN f[x] + SumOver(f, S \ {x})

OnDRBG(r) == r.on = "DRBG"

\* C1: the constructor of the self-seeding generator, whatever it was given,
\* ends in one of two ways: the instance exists and is_seeded() on it is
\* true, or a seeding failure was raised and no instance exists; and
\* whenever force_reseed() returns normally the DRBG reports seeded.
C1_SeededOrFailed ==
  /\ ctor \in {"none", "start", "running", "constructed", "failed"}
  /\ (ctor = "constructed" /\ last.op = "none") => (m_rng.alive /\ IsSeededNow)
  /\ ctor = "failed" =>
       (ctor_exc \in SeedingFailures /\ m_rng = NoRng /\ ~Usable)
  /\ (ctor = "constructed" /\ last.op = "force_reseed" /\ fr = "idle"
        /\ last.exc = NoExc) => IsSeededNow

\* A generator built by the default constructor, just constructed.
C1_Witness ==
  /\ ctor = "constructed"
  /\ last.op = "none"
  /\ seed_source.variant = "default"
  /\ IsSeededNow

\* C2: at most one thread is between acquiring the wrapper's lock and
\* releasing it, so two calls on the owned generator never overlap, and a
\* thread holds the lock from before its owned call starts until after the
\* call's result is there.
C2_OneAtATime ==
  /\ Cardinality(Holding) <= 1
  /\ \A t \in Threads : t \in Holding => m_mutex = t

\* One thread inside the owned generator while another waits for the lock.
C2_Witness ==
  \E t, u \in Threads :
    /\ t # u
    /\ pc[t] = "owned"
    /\ m_mutex = t
    /\ pc[u] = "lock"

\* C3: the counting mock has seen every randomize call made through the
\* wrapper exactly once: K*M when K threads have made their M calls each;
\* and never two of them at once.
C3_CountsEveryCall ==
  rng_type = "Counting_RNG" =>
    /\ Cardinality({t \in Threads : pc[t] = "owned"}) <= 1
    /\ count = SumOver(ncalls, Threads)
                 - Cardinality({t \in Threads :
                                  pc[t] \in {"lock", "forward", "owned"}})
    /\ (\A t \in Threads : pc[t] = "idle" /\ ncalls[t] = MaxCalls)
         => count = NumThreads * MaxCalls

\* All K threads have made their M calls and the mock counts K*M.
C3_Witness ==
  /\ rng_type = "Counting_RNG"
  /\ \A t \in Threads : pc[t] = "idle" /\ ncalls[t] = MaxCalls
  /\ count = NumThreads * MaxCalls

\* C4: an error raised by the owned generator reaches the wrapper's caller
\* unchanged and with the lock released: a thread back at its caller does
\* not hold the lock, and the lock is free whenever no call is past
\* acquiring it, so the next caller gets it.
C4_LockFreeAfterError ==
  /\ \A t \in Threads :
       /\ pc[t] = "unlock" => ret[t].exc = inner[t].exc
       /\ (pc[t] = "idle" /\ ret[t].exc # NoExc) => m_mutex # t
  /\ Holding = {} => m_mutex = NoThread

\* A call on the wrapped stub has failed and another thread then holds the
\* lock.
C4_Witness ==
  \E t, u \in Threads :
    /\ t # u
    /\ rng_type = "Null_RNG"
    /\ pc[t] = "idle"
    /\ ret[t].exc = NullExc
    /\ pc[u] = "forward"
    /\ m_mutex = u

\* C5: on the stub, whatever was called before, is_seeded() is false and
\* every randomize (and randomize_with_input) raises the stub's error, for
\* every length including zero.
C5_StubNeverYields ==
  rng_type = "Null_RNG" =>
    /\ ~Null_RNG_is_seeded(m_rng, NoArgs, NoEnv).result.b
    /\ last.op = "is_seeded" => last.result = RBool(FALSE)
    /\ last.op \in {"randomize", "randomize_with_input"} => last.exc = NullExc
    /\ last.op \in {"clear", "add_entropy"} => last.exc = NoExc

\* A zero-length randomize on the stub, right after a clear, has raised.
C5_Witness ==
  /\ rng_type = "Null_RNG"
  /\ prev = "clear"
  /\ last.op = "randomize"
  /\ last.args.len = 0
  /\ last.exc = NullExc

\* C6: on the self-seeding generator, is_seeded() right after clear()
\* returns false, and the generator reports unseeded once clear() is done.
C6_ClearUnseeds ==
  rng_type = "AutoSeeded_RNG" =>
    /\ (prev = "clear" /\ last.op = "is_seeded") => last.result = RBool(FALSE)
    /\ last.op = "clear" => ~IsSeededNow

\* is_seeded() called right after clear() on a constructed generator.
C6_Witness ==
  /\ rng_type = "AutoSeeded_RNG"
  /\ ctor = "constructed"
  /\ prev = "clear"
  /\ last.op = "is_seeded"
  /\ last.result = RBool(FALSE)

\* C7: a wrapper call is one indivisible step on the owned generator: while
\* a thread is between the entropy-mixing part and the output part of its
\* randomize_with_input, no other thread's operation takes effect on the
\* owned generator.
C7_OneLockHold ==
  \A t, u \in Threads :
    (/\ t # u
     /\ call[t].op = "randomize_with_input"
     /\ sub[t].op = "randomize"
     /\ pc[t] = "lock")
    => pc[u] # "unlock"

\* The direct calls of the DRBG an operation of the self-seeding generator
\* made.
DRBGCalls == SelectSeq(last.calls, OnDRBG)

DirectOpDone ==
  rng_type = "AutoSeeded_RNG" /\ fr = "idle" /\ last.op \in Ops

\* C8, as claimed: every contract operation of the self-seeding generator
\* makes exactly one call of the same operation on the DRBG, with the same
\* arguments, and returns its result.
C8_SameOperation ==
  DirectOpDone =>
    DRBGCalls = <<Rec("DRBG", last.op, last.args, last.result, last.exc)>>

\* C8, amended: so do all of them but randomize; randomize makes exactly one
\* randomize_with_input call on the DRBG, for the same length and with a
\* timestamp buffer as the extra input, and returns what it returns.
C8_DelegatesButRandomize ==
  DirectOpDone =>
    DRBGCalls =
      IF last.op = "randomize"
        THEN <<Rec("DRBG", "randomize_with_input",
                   [last.args EXCEPT !.in = TsBuf], last.result, last.exc)>>
        ELSE <<Rec("DRBG", last.op, last.args, last.result, last.exc)>>

\* A non-empty randomize on the self-seeding generator has returned.
C8_Witness ==
  /\ DirectOpDone
  /\ last.op = "randomize"
  /\ last.args.len > 0
  /\ last.exc = NoExc
  /\ Len(DRBGCalls) = 1

\* C9: next_nonzero_byte never returns zero: what it returns is the last
\* byte the generator yielded during the call, the only one that is not
\* zero.
C9_NeverZero ==
  /\ \A i \in 1..Len(nz_out) : nz_out[i] # 0
  /\ nz_pc = "returned" =>
       /\ nz_b # 0
       /\ nz_drawn # <<>>
       /\ nz_b = nz_drawn[Len(nz_drawn)]
       /\ \A i \in 1..(Len(nz_drawn) - 1) : nz_drawn[i] = 0
       /\ nz_out[Len(nz_out)] = nz_b

\* A call that drew zero bytes before it returned.
C9_Witness ==
  /\ nz_pc = "returned"
  /\ Len(nz_drawn) >= 3
  /\ nz_drawn[1] = 0

\* C10: reseed through the wrapper and through the self-seeding generator
\* returns the estimate of the generator below, which was called with the
\* same arguments, and raises nothing, also when the estimate is short of
\* the bits asked for.
C10_EstimateUnchanged ==
  \A t \in Threads :
    (pc[t] = "unlock" /\ call[t].op = "reseed") =>
      LET c == inner[t].calls
      IN /\ ret[t].exc = NoExc
         /\ ret[t].result.t = "size_t"
         /\ ret[t].result.n <= call[t].args.bits
         /\ c[1] = Rec(rng_type, "reseed", call[t].args,
                       ret[t].result, ret[t].exc)
         /\ rng_type = "AutoSeeded_RNG" =>
              /\ Len(c) = 2
              /\ c[2] = Rec("DRBG", "reseed", call[t].args,
                            ret[t].result, ret[t].exc)

\* A reseed through the wrapper that collected less than it asked for.
C10_Witness ==
  \E t \in Threads :
    /\ rng_type = "AutoSeeded_RNG"
    /\ pc[t] = "unlock"
    /\ call[t].op = "reseed"
    /\ ret[t].result.n < call[t].args.bits
    /\ ret[t].exc = NoExc

\* The calls force_reseed has made on the DRBG so far, as they should be
\* after each of its steps.
C11_Reseeded == Rec("DRBG", "force_reseed", NoArgs, RVoid, NoExc)

C11_Probed(exc) ==
  Rec("DRBG", "randomize", Args(0, NoBuf, 0, NoTimeout), RVoid, exc)

C11_Checked(seeded) == Rec("DRBG", "is_seeded", NoArgs, RBool(seeded), NoExc)

\* force_reseed is running or was the last thing that ran.
C11_InForceReseed == last.op \in {"none", "force_reseed"} /\ ctor # "start"

C11_Raised == IF ctor = "failed" THEN ctor_exc ELSE last.exc

\* C11: in every construction variant and in every later force_reseed(),
\* the DRBG is called in this order: force_reseed, then randomize of length
\* zero, then is_seeded; the seeding error of the generator itself is raised
\* exactly when all three have run and is_seeded returned false.
C11_StepOrder ==
  (rng_type = "AutoSeeded_RNG" /\ C11_InForceReseed) =>
    /\ fr = "reseed" => last.calls = <<>>
    /\ fr = "probe" => last.calls = <<C11_Reseeded>>
    /\ fr = "check" => last.calls = <<C11_Reseeded, C11_Probed(NoExc)>>
    /\ fr = "idle" =>
         \/ last.calls = <<C11_Reseeded, C11_Probed(UnseededExc)>>
              /\ C11_Raised = UnseededExc
         \/ last.calls = <<C11_Reseeded, C11_Probed(NoExc), C11_Checked(FALSE)>>
              /\ C11_Raised = SeedExc
         \/ last.calls = <<C11_Reseeded, C11_Probed(NoExc), C11_Checked(TRUE)>>
              /\ C11_Raised = NoExc

\* A construction over both an underlying generator and entropy sources
\* that failed at the is_seeded check.
C11_Witness ==
  /\ ctor = "failed"
  /\ seed_source.variant = "both"
  /\ ctor_exc = SeedExc
  /\ Len(last.calls) = 3

\* A thread whose randomize_with_input on the wrapper has got as far as its
\* second method.
C12_Second(t) ==
  call[t].op = "randomize_with_input" /\ sub[t].op = "randomize"

\* C12: randomize_with_input on a generator that does not specialise it is
\* add_entropy(extra) and then randomize(buffer), once each and in that
\* order.  On the wrapper the owned generator sees add_entropy, and when
\* that has returned, randomize; on the stub the call records add_entropy,
\* then randomize, and raises the stub's error.
C12_EntropyThenOutput ==
  /\ \A t \in Threads :
       call[t].op = "randomize_with_input" =>
         LET c == inner[t].fwd
             first == Rec(rng_type, "add_entropy",
                          Args(0, call[t].args.in, 0, NoTimeout), RVoid, NoExc)
         IN /\ sub[t].op \in {"add_entropy", "randomize"}
            /\ (sub[t].op = "add_entropy" /\ pc[t] # "unlock") => c = <<>>
            /\ (sub[t].op = "add_entropy" /\ pc[t] = "unlock") => c = <<first>>
            /\ (C12_Second(t) /\ pc[t] # "unlock") => c = <<first>>
            /\ (C12_Second(t) /\ pc[t] = "unlock") =>
                 /\ Len(c) = 2
                 /\ c[1] = first
                 /\ c[2].op = "randomize"
                 /\ c[2].args = Args(call[t].args.len, NoBuf, 0, NoTimeout)
                 /\ ret[t].exc = c[2].exc
                 /\ rng_type = "Null_RNG" => ret[t].exc = NullExc
  /\ \A a \in ArgsOf("randomize_with_input") :
       \A e \in EnvOf("randomize_with_input") :
         LET o == Null_RNG_randomize_with_input(m_rng, a, e)
         IN /\ o.exc = NullExc
            /\ o.rng = m_rng
            /\ o.calls =
                 <<Rec("Null_RNG", "randomize_with_input", a, RVoid, NullExc),
                   Rec("Null_RNG", "add_entropy",
                       Args(0, a.in, 0, NoTimeout), RVoid, NoExc),
                   Rec("Null_RNG", "randomize",
                       Args(a.len, NoBuf, 0, NoTimeout), RVoid, NullExc)>>

\* A randomize_with_input on the wrapped self-seeding generator whose two
\* methods have both run.
C12_Witness ==
  \E t \in Threads :
    /\ rng_type = "AutoSeeded_RNG"
    /\ C12_Second(t)
    /\ pc[t] = "unlock"
    /\ ret[t].exc = NoExc
    /\ Len(inner[t].fwd) = 2

\* The bytes drawn are k zero bytes and then one that is not zero.
C13_ZerosThenOne(drawn) ==
  /\ drawn # <<>>
  /\ drawn[Len(drawn)] # 0
  /\ \A i \in 1..(Len(drawn) - 1) : drawn[i] = 0

C13_InCall == nz_pc \in {"next_byte", "test"}

C13_Over == nz_pc \in {"returned", "raised"}

\* While the record of the draws has room: the call is still drawing exactly
\* when every byte so far was zero, and it has returned exactly when the
\* bytes drawn are k zeros and one non-zero byte, k + 1 draws in all.
C13_DrawsOneMore ==
  /\ (nz_pc = "returned" /\ Len(nz_drawn) < MaxDraws) =>
       C13_ZerosThenOne(nz_drawn) /\ nz_b = nz_drawn[Len(nz_drawn)]
  /\ (nz_pc = "next_byte" /\ Len(nz_drawn) < MaxDraws) =>
       \A i \in 1..Len(nz_drawn) : nz_drawn[i] = 0
  /\ (nz_pc = "test" /\ Len(nz_drawn) < MaxDraws) =>
       /\ nz_b = nz_drawn[Len(nz_drawn)]
       /\ \A i \in 1..(Len(nz_drawn) - 1) : nz_drawn[i] = 0
  /\ nz_pc = "returned" => nz_b # 0

\* C13: next_nonzero_byte makes k + 1 draws when the generator yields k
\* zero bytes and then a non-zero one; and a call, once made, returns or
\* raises, unless from some point on every byte the generator yields is
\* zero.
C13_OnlyZerosForever ==
  /\ []C13_DrawsOneMore
  /\ \/ (C13_InCall ~> C13_Over)
     \/ <>[](C13_InCall /\ nz_b = 0)

\* A call that returned on its third draw, after two zero bytes.
C13_Witness ==
  /\ nz_pc = "returned"
  /\ Len(nz_drawn) = 3
  /\ nz_drawn[1] = 0
  /\ nz_drawn[2] = 0
  /\ nz_drawn[3] # 0

\* A step thread t takes inside an is_seeded() call on the wrapper.
C14_QueryStep(t) ==
  /\ pc'[t] # pc[t]
  /\ call[t].op = "is_seeded" \/ call'[t].op = "is_seeded"

\* C14: is_seeded() changes nothing.  No step of an is_seeded() call on the
\* wrapper changes the state of the owned generator, and the step that
\* returns to the caller leaves the lock free; called directly, the
\* self-seeding generator and the stub hand back the state they were given,
\* with the flag as the result.
C14_PureQuery ==
  [][/\ \A t \in Threads :
         C14_QueryStep(t) =>
           /\ m_rng' = m_rng
           /\ count' = count
           /\ pc'[t] = "idle" =>
                (m_mutex = t /\ m_mutex' = NoThread
                   /\ ret'[t].result.t = "bool" /\ ret'[t].exc = NoExc)
      /\ LET q == AutoSeeded_RNG_is_seeded(m_rng, NoArgs, NoEnv)
             n == Null_RNG_is_seeded(m_rng, NoArgs, NoEnv)
         IN /\ q.rng = m_rng /\ q.result = RBool(m_rng.seeded) /\ q.exc = NoExc
            /\ n.rng = m_rng /\ n.result = RBool(FALSE) /\ n.exc = NoExc
    ]_vars

\* is_seeded() through the wrapper has returned false on a self-seeding
\* generator that was cleared, and the lock is free.
C14_Witness ==
  \E t \in Threads :
    /\ rng_type = "AutoSeeded_RNG"
    /\ pc[t] = "idle"
    /\ ret[t].result = RBool(FALSE)
    /\ ~m_rng.seeded
    /\ m_mutex = NoThread

\* A thread waiting for the lock waits for a thread that is inside a locked
\* method and can go on, or the lock is free for it.
C15_NoDeadlock ==
  \A t \in Threads :
    pc[t] = "lock" =>
      \/ m_mutex = NoThread
      \/ \E u \in Threads :
           u # t /\ m_mutex = u /\ pc[u] \in {"forward", "owned", "unlock"}

\* C15: with a fair lock and an owned generator whose operations come
\* back, no state is a deadlock and every call a thread makes on the wrapper
\* is eventually back at its caller, with a result or an error.
C15_EveryCallReturns ==
  /\ []C15_NoDeadlock
  /\ \A t \in Threads : (pc[t] # "idle") ~> (pc[t] = "idle")

\* A thread waits for the lock a second time, inside its
\* randomize_with_input, while another thread is inside the owned generator.
C15_Witness ==
  \E t, u \in Threads :
    /\ t # u
    /\ pc[t] = "lock"
    /\ C12_Second(t)
    /\ m_mutex = u
    /\ pc[u] = "owned"

\* C16: a randomize(output, len) on the self-seeding generator is, on the
\* DRBG, one randomize_with_input for len bytes with a buffer of timestamps
\* as the extra input; the DRBG's plain randomize is called only from
\* force_reseed, for zero bytes, right after the DRBG's force_reseed.
C16_TimestampedOutput ==
  rng_type = "AutoSeeded_RNG" =>
    /\ (fr = "idle" /\ last.op = "randomize") =>
         /\ Len(DRBGCalls) = 1
         /\ DRBGCalls[1].op = "randomize_with_input"
         /\ DRBGCalls[1].args = Args(last.args.len, TsBuf, 0, NoTimeout)
         /\ DRBGCalls[1].exc = last.exc
    /\ \A i \in 1..Len(DRBGCalls) :
         DRBGCalls[i].op = "randomize" =>
           /\ last.op \in {"none", "force_reseed"}
           /\ i = 2
           /\ DRBGCalls[1].op = "force_reseed"
           /\ DRBGCalls[i].args = Args(0, NoBuf, 0, NoTimeout)

\* A caller's own zero-length randomize, made after a force_reseed(): on
\* the DRBG it is a randomize_with_input over timestamps, unlike the probe.
C16_Witness ==
  /\ rng_type = "AutoSeeded_RNG"
  /\ fr = "idle"
  /\ prev = "force_reseed"
  /\ last.op = "randomize"
  /\ last.args.len = 0
  /\ DRBGCalls[1].args.in = TsBuf

\* The step in which the owned generator carries out thread t's call.
C17_OwnedStep(t) == pc[t] = "owned" /\ pc'[t] = "unlock"

\* The step is the one a direct call of the same operation, with the same
\* arguments, takes on the owned generator, and what the wrapper hands back
\* is what that call returns or raises.
C17_AsDirect(t) ==
  \E e \in EnvOf(call[t].op) :
    LET o == Dispatch(rng_type, call[t].op, m_rng, call[t].args, e)
    IN /\ m_rng' = o.rng
       /\ ret'[t] = [result |-> o.result, exc |-> o.exc]
       /\ inner'[t].calls = o.calls
       /\ inner'[t].fwd =
            <<Rec(rng_type, call[t].op, call[t].args, o.result, o.exc)>>

\* C17: with one calling thread, a call of randomize, is_seeded, clear,
\* name, reseed or add_entropy on the wrapper is one call of the same
\* operation with the same arguments on the owned generator, in the state
\* the calls before it left; its result or error is what the caller gets,
\* and no other step of the wrapper touches the owned generator.
C17_SameAsOwned ==
  [][\A t \in Threads :
       /\ C17_OwnedStep(t) => C17_AsDirect(t)
       /\ (pc'[t] # pc[t] /\ ~C17_OwnedStep(t)) =>
            /\ m_rng' = m_rng
            /\ pc[t] = "unlock" => (pc'[t] = "idle" /\ ret'[t] = ret[t])
    ]_vars

\* The second call of a sequence: a randomize on the self-seeding generator
\* through the wrapper has raised the DRBG's error, after a clear().
C17_Witness ==
  /\ rng_type = "AutoSeeded_RNG"
  /\ pc[Caller] = "unlock"
  /\ call[Caller].op = "randomize"
  /\ ret[Caller].exc = UnseededExc
  /\ ~m_rng.seeded

\* C18: the lock is held exactly when one thread is between acquiring it
\* and returning from one of the six methods the wrapper defines: that
\* thread is the holder, there is no second one, and with no call in
\* progress the lock is free.
C18_HeldWhileInMethod ==
  /\ m_mutex \in Threads \cup {NoThread}
  /\ m_mutex # NoThread <=> Cardinality(Holding) = 1
  /\ \A t \in Threads :
       t \in Holding <=> (m_mutex = t /\ sub[t].op \in Overridden)
  /\ (\A t \in Threads : pc[t] = "idle") => m_mutex = NoThread

\* One thread is about to return from name() with the lock, another is
\* between the two methods of its randomize_with_input, without it.
C18_Witness ==
  \E t, u \in Threads :
    /\ t # u
    /\ pc[t] = "unlock"
    /\ sub[t].op = "name"
    /\ m_mutex = t
    /\ pc[u] = "lock"
    /\ C12_Second(u)

=============================================================================
